---------------------------- MODULE Spec2Model ----------------------------
(***************************************************************************)
(* Recommendation subsystem of the storefront.                             *)
(*                                                                         *)
(* Two implementations of getRecommendations live in the repository:       *)
(*   "prisma"   src/unnamed/part_000  (relational store, order and         *)
(*              product seeded paths, ranking by the LLM service)          *)
(*   "mongoose" src/unnamed/part_012  (document store behind a module      *)
(*              level cache, product seeded path only)                     *)
(* A request is one asynchronous task; every await of the code is one      *)
(* step of the model.  Storage queries may fail at any step, the LLM       *)
(* service may answer anything or fail.                                    *)
(***************************************************************************)
EXTENDS Integers, Sequences, FiniteSets, TLC

(* ------------------------------ bounds -------------------------------- *)
NumProducts == 4        \* largest catalog: product ids 1..NumProducts
MaxLimit == 3           \* requests ask for 1..MaxLimit recommendations
MaxRespLen == 2         \* tokens in an LLM answer
MaxOrderItems == 2      \* line items of the stored order

(* -------------------------- program constants ------------------------- *)
SimilarTake == 10       \* take: 10 of the product-seeded category query
ScoreWindow == 20       \* sustainability scores at most 20 apart
CacheTTL == 300000      \* productsCache lifetime in ms

Categories == {"A", "B"}
Scores == {40, 61}
StoredOrderId == 1      \* id of the one order the store holds

VARIABLES
    impl,             \* which implementation serves the request
    USE_OLLAMA,       \* process.env.USE_OLLAMA !== "false"
    categories,       \* catalog: categories[p] = category set of product p
    scores,           \* catalog: sustainabilityScore of product p
    orderItems,       \* product ids of the line items of the stored order
    productsCache,    \* mongoose: module level cache {data, lastUpdate}
    now,              \* Date.now()
    req,              \* {productId, orderId, limit}; 0 = parameter absent
    pc,               \* the await the request is suspended at
    useOllama,        \* prisma: const useOllama
    fallbackProducts, \* const fallbackProducts (product ids, in order)
    similar,          \* similarCategoryProducts / similarProducts
    productsToRank,   \* pool handed to the ranker
    validIds,         \* productIds: the candidate ids found in the answer
    recommendedIds,   \* value returned by the rank function
    strayIds,         \* the answer held a number that is no candidate id
    result,           \* list the request returned
    outcome,          \* "pending" | "returned" | "rejected"
    calls,            \* outbound calls issued so far, in order, each with
                      \* whether it succeeded
    timer,            \* timeout of the ranking request: armed or not, due time
    tasks,            \* concurrent requests against the cache, one record each
    cacheOrigin,      \* where productsCache comes from: the refill that
                      \* wrote it, when that started and read storage
    lruCache,         \* an LRUCache object: its Map in insertion order,
                      \* maxSize, ttl and metrics, with the order of last
                      \* access of its keys and the latest eviction
    routing,          \* an HTTP request on its way through a router: the
                      \* request, the layer it is at and who answered it
    debounced,        \* a function made by debounce(fn, delay): its timer
                      \* variable, the timeouts pending in the event loop,
                      \* and the calls of the wrapper and of fn so far
    shop,             \* the order controller and its collections: the
                      \* user's cart, the order document, the createOrder
                      \* request in hand and the updates it left un-awaited
    productList       \* the ProductList component: its state hooks
                      \* (products, loading, error, filters, usingMockData),
                      \* its refs (cache, lastFetchTime, fetchTimeout) and
                      \* the requests it has in flight

vars == <<impl, USE_OLLAMA, categories, scores, orderItems, productsCache, now,
          req, pc, useOllama, fallbackProducts, similar, productsToRank,
          validIds, recommendedIds, strayIds, result, outcome, calls, timer,
          tasks, cacheOrigin, productList, lruCache, routing, debounced,
          shop>>

\* the state of the recommendation service apart from its clock
recommenderVars == <<impl, USE_OLLAMA, categories, scores, orderItems,
                     productsCache, req, pc, useOllama, fallbackProducts,
                     similar, productsToRank, validIds, recommendedIds,
                     strayIds, result, outcome, calls, timer, tasks, cacheOrigin>>

\* the components modelled besides the recommendation service
componentVars == <<productList, lruCache, routing, debounced, shop>>

(* ------------------------- components at rest ------------------------- *)
\* useState([]): nothing on display
NoList == [shown |-> FALSE, filters |-> <<>>, mock |-> FALSE,
           fromCache |-> FALSE, age |-> 0]

\* no fetch timeout pending
NoFetchTimeout == [armed |-> FALSE, due |-> 0, filters |-> <<>>,
                   hadProducts |-> FALSE]

\* ProductList before it is mounted
ProductListUnmounted ==
    [mounted |-> FALSE, filters |-> <<>>, cache |-> [k \in {} |-> NoList], lastFetchTime |-> 0,
     products |-> NoList, usingMockData |-> FALSE, loading |-> TRUE,
     error |-> FALSE, fetchTimeout |-> NoFetchTimeout, inFlight |-> {},
     changes |-> 0]

\* no eviction yet
NoEviction == [happened |-> FALSE, key |-> "", recency |-> <<>>]

\* metrics of a new LRUCache
NoMetrics == [hits |-> 0, misses |-> 0, evictions |-> 0, expirations |-> 0]

\* no LRUCache constructed
NoLruCache ==
    [cache |-> <<>>, maxSize |-> 0, ttl |-> 0, metrics |-> NoMetrics,
     recency |-> <<>>, evicted |-> NoEviction, ops |-> 0]

\* no request in the routers
NoRequest ==
    [stage |-> "idle", router |-> "", method |-> "", path |-> <<>>,
     authorized |-> FALSE, layer |-> 0, handler |-> "", status |-> 0]

\* debounce not called yet; let timer = null
NoDebounced ==
    [delay |-> 0, timer |-> 0, pending |-> {}, nextId |-> 1, calls |-> <<>>,
     runs |-> <<>>]

\* no order document
NoOrder ==
    [exists |-> FALSE, orderItems |-> <<>>, orderStatus |-> "",
     isDelivered |-> FALSE, deliveredAt |-> 0]

\* the order controller with an empty cart and nothing in hand
ShopAtRest ==
    [cart |-> <<>>, order |-> NoOrder, pc |-> "idle", items |-> <<>>,
     status |-> 0, clearPending |-> FALSE, cleared |-> FALSE,
     increments |-> {}, purchased |-> {}, addedSinceRead |-> {},
     adds |-> 0, updates |-> 0, updateStatus |-> 0]

ComponentsAtRest ==
    /\ productList = ProductListUnmounted
    /\ lruCache = NoLruCache
    /\ routing = NoRequest
    /\ debounced = NoDebounced
    /\ shop = ShopAtRest

\* the recommendation service with no request in hand
RecommenderAtRest ==
    /\ impl = "prisma"
    /\ USE_OLLAMA = FALSE
    /\ categories = <<>>
    /\ scores = <<>>
    /\ orderItems = <<>>
    /\ productsCache = [loaded |-> FALSE, data |-> <<>>, lastUpdate |-> 0]
    /\ req = [productId |-> 0, orderId |-> 0, limit |-> 1]
    /\ pc = "idle"
    /\ useOllama = FALSE
    /\ fallbackProducts = <<>>
    /\ similar = <<>>
    /\ productsToRank = <<>>
    /\ validIds = <<>>
    /\ recommendedIds = [ok |-> FALSE, ids |-> <<>>]
    /\ strayIds = FALSE
    /\ result = <<>>
    /\ outcome = "pending"
    /\ calls = <<>>
    /\ timer = [armed |-> FALSE, due |-> 0]
    /\ tasks = <<>>
    /\ cacheOrigin = [readAt |-> 0, startedAt |-> 0, by |-> 0, overtook |-> FALSE]

(* ------------------------------ helpers ------------------------------- *)
Min(a, b) == IF a <= b THEN a ELSE b

Range(s) == {s[i] : i \in 1..Len(s)}

\* Array.prototype.slice(0, n) / prisma "take: n"
Take(s, n) == IF n <= 0 THEN <<>> ELSE SubSeq(s, 1, Min(n, Len(s)))

\* s.filter(x => !excluded.includes(x))
Without(s, excluded) == SelectSeq(s, LAMBDA x : x \notin excluded)

NoDuplicates(s) == \A i, j \in 1..Len(s) : i # j => s[i] # s[j]

SeqsUpTo(S, n) == UNION {[1..k -> S] : k \in 0..n}

Catalog == 1..Len(categories)

\* an id no product of the catalog has
MissingId == NumProducts + 1

\* rows come back in primary key order when no orderBy is given
AllProducts == [i \in Catalog |-> i]

\* number of order line items that reference product p
OrderCount(p) == Cardinality({i \in 1..Len(orderItems) : orderItems[i] = p})

RECURSIVE InsertByCountTiesFirst(_, _)
\* faulty variant: a product goes before the products of equal count
InsertByCountTiesFirst(sorted, p) ==
    IF sorted = <<>> THEN <<p>>
    ELSE IF OrderCount(Head(sorted)) > OrderCount(p)
         THEN <<Head(sorted)>> \o InsertByCountTiesFirst(Tail(sorted), p)
         ELSE <<p>> \o sorted

RECURSIVE InsertByCount(_, _)
InsertByCount(sorted, p) ==
    IF sorted = <<>> THEN <<p>>
    ELSE IF OrderCount(Head(sorted)) >= OrderCount(p)
         THEN <<Head(sorted)>> \o InsertByCount(Tail(sorted), p)
         ELSE <<p>> \o sorted

RECURSIVE SortByCountDesc(_)
\* orderBy: { orderItems: { _count: 'desc' } }, also
\* .sort((a, b) => b.orderCount - a.orderCount); equal counts keep their order
SortByCountDesc(s) ==
    IF s = <<>> THEN <<>>
    ELSE InsertByCount(SortByCountDesc(SubSeq(s, 1, Len(s) - 1)), s[Len(s)])

\* categories: { some: { id: { in: cats } } }
SharesCategory(p, cats) == categories[p] \cap cats # {}

\* an entry of the log of outbound calls
Call(name, ok) == [call |-> name, ok |-> ok]

NullIds == [ok |-> FALSE, ids |-> <<>>]
SomeIds(s) == [ok |-> TRUE, ids |-> s]


(* --------------------------- the LLM service --------------------------- *)
\* An answer of the generation endpoint, as the parsers see it: number
\* tokens, the label "Recommended product IDs:" and line breaks.
Num(n) == [k |-> "num", v |-> n]
Label == [k |-> "label", v |-> 0]
Newline == [k |-> "nl", v |-> 0]
Tokens == {Num(n) : n \in 1..MissingId} \cup {Label, Newline}

\* what a POST to the generation endpoint can come to: a failure (network
\* error, abort on timeout, non-ok status, body that is no JSON or has no
\* response text) or a text
Replies == {[ok |-> FALSE, text |-> <<>>]}
           \cup {[ok |-> TRUE, text |-> t] : t \in SeqsUpTo(Tokens, MaxRespLen)}

\* what the GET of the availability probe can come to
ProbeOutcomes == {"ok", "bad_status", "network_error", "timeout"}

\* faulty variant: any answer of the endpoint counts, whatever its status
isOllamaAvailableAnyAnswer(probe) == probe \in {"ok", "bad_status"}

isOllamaAvailable(probe) == probe = "ok"

\* text.match(/\d+/g): the numbers of a text, in order
Numbers(text) ==
    LET nums == SelectSeq(text, LAMBDA t : t.k = "num")
    IN  [i \in 1..Len(nums) |-> nums[i].v]

\* text up to the first line break
RECURSIVE FirstLine(_)
FirstLine(text) ==
    IF text = <<>> \/ Head(text).k = "nl" THEN <<>>
    ELSE <<Head(text)>> \o FirstLine(Tail(text))

\* text.match(/Recommended product IDs:([^\n]+)/i): the rest of the line
\* after the first label that has anything after it on its line
RECURSIVE IdSection(_)
IdSection(text) ==
    IF text = <<>> THEN [found |-> FALSE, rest |-> <<>>]
    ELSE IF Head(text).k = "label" /\ FirstLine(Tail(text)) # <<>>
         THEN [found |-> TRUE, rest |-> FirstLine(Tail(text))]
         ELSE IdSection(Tail(text))

\* numberMatches of getOllamaRecommendations
ProductReplyNumbers(text) ==
    IF IdSection(text).found THEN Numbers(IdSection(text).rest) ELSE Numbers(text)

\* numberMatches of getOllamaRecommendationsForOrder: /\b\d+\b/g on the text
OrderReplyNumbers(text) == Numbers(text)

\* faulty variant: the numbers of the answer are taken as they are
ValidIdsUnfiltered(numbers, pool) == numbers

\* .filter(id => !isNaN(id) && productsToRank.some(p => p.id === id)), also
\* .map(id => productsMap.get(id)).filter(Boolean)
ValidIds(numbers, pool) == SelectSeq(numbers, LAMBDA n : n \in Range(pool))

\* a number of the answer that the id filter drops
HasStrayId(reply, numbers, pool) ==
    reply.ok /\ \E i \in 1..Len(numbers) : numbers[i] \notin Range(pool)

\* if (productsToRank.length < limit) return null, before any request is sent
RankCallMade(pool, limit) == Len(pool) >= limit

\* faulty variant: one valid id is accepted as a ranking
EnoughIdsOne(ids, limit) == Len(ids) >= 1

\* if (productIds.length < Math.min(2, limit)) return null
EnoughIds(ids, limit) == Len(ids) >= Min(2, limit)

\* productIds of the rank functions: nothing is parsed from a failed POST
\* or from a text without numbers
ReplyIds(reply, numbers, pool) ==
    IF ~reply.ok \/ numbers = <<>> THEN <<>> ELSE ValidIds(numbers, pool)

ProductReplyIds(reply, pool) ==
    ReplyIds(reply, ProductReplyNumbers(reply.text), pool)

OrderReplyIds(reply, pool) ==
    ReplyIds(reply, OrderReplyNumbers(reply.text), pool)

\* what the rank functions return for the ids they parsed
getOllamaRecommendations(ids, limit) ==
    IF ids = <<>> \/ ~EnoughIds(ids, limit) THEN NullIds ELSE SomeIds(ids)

(* ------------------- prisma: getRecommendations ----------------------- *)
\* faulty variant: the probe is sent whatever the flag says
ProbeAlways == TRUE

\* USE_OLLAMA && (await isOllamaAvailable()): the probe is sent only if the
\* flag is set
ProbeNeeded == USE_OLLAMA

\* prisma.product.findMany of fallbackProducts
FallbackQuery(productId, limit) ==
    Take(SortByCountDesc(
           Without(AllProducts, IF productId # 0 THEN {productId} ELSE {})),
         limit)

\* getPopularProducts(limit)
getPopularProducts(limit) == Take(SortByCountDesc(AllProducts), limit)

\* categoryIds of the order's items
OrderCategoryIds == UNION {categories[p] : p \in Range(orderItems)}

\* similarCategoryProducts of the order path
OrderSimilarQuery(limit) ==
    Take(SelectSeq(AllProducts,
                   LAMBDA p : p \notin Range(orderItems)
                              /\ SharesCategory(p, OrderCategoryIds)),
         limit * 2)

\* similarCategoryProducts of the product path
ProductSimilarQuery(productId) ==
    Take(SelectSeq(AllProducts,
                   LAMBDA p : p # productId
                              /\ SharesCategory(p, categories[productId])),
         SimilarTake)

\* additionalProducts of the product path
AdditionalQuery(productId, sim, limit) ==
    Take(SortByCountDesc(Without(AllProducts, {productId} \cup Range(sim))),
         limit * 2)

\* "Use category products if we don't have Ollama recommendations" (order)
OrderCategoryResult(sim, fallback, limit) ==
    IF Len(sim) > 0
    THEN IF limit - Len(sim) <= 0
         THEN Take(sim, limit)
         ELSE Take(sim \o Take(Without(fallback, Range(sim)), limit - Len(sim)),
                   limit)
    ELSE fallback

\* faulty variant: a short ranking is filled from the fallback list
OrderResultFallbackFill(rec, sim, fallback, limit) ==
    LET recommendedProducts == Take(ValidIds(rec.ids, sim), limit)
    IN  IF rec.ok /\ Len(rec.ids) > 0
           /\ Len(recommendedProducts) >= Min(2, limit)
        THEN IF Len(recommendedProducts) < limit
             THEN recommendedProducts
                  \o Take(Without(fallback, Range(rec.ids)),
                          limit - Len(recommendedProducts))
             ELSE recommendedProducts
        ELSE OrderCategoryResult(sim, fallback, limit)

\* the order path from the answer of the rank function on
OrderResult(rec, sim, fallback, limit) ==
    LET recommendedProducts == Take(ValidIds(rec.ids, sim), limit)
    IN  IF rec.ok /\ Len(rec.ids) > 0
           /\ Len(recommendedProducts) >= Min(2, limit)
        THEN IF Len(recommendedProducts) < limit
             THEN recommendedProducts
                  \o Take(Without(sim, Range(rec.ids)),
                          limit - Len(recommendedProducts))
             ELSE recommendedProducts
        ELSE OrderCategoryResult(sim, fallback, limit)

\* faulty variant: the fallbacks are cut to the number needed before the
\* category products are filtered out of them
ProductCategoryResultSliceFirst(sim, fallback, limit) ==
    IF Len(sim) > 0
    THEN IF limit - Len(sim) <= 0
         THEN Take(sim, limit)
         ELSE sim \o Without(Take(fallback, limit - Len(sim)), Range(sim))
    ELSE fallback

\* "Use category products first, then fallbacks" (product)
ProductCategoryResult(sim, fallback, limit) ==
    IF Len(sim) > 0
    THEN IF limit - Len(sim) <= 0
         THEN Take(sim, limit)
         ELSE sim \o Take(Without(fallback, Range(sim)), limit - Len(sim))
    ELSE fallback

\* faulty variant: the ranked products are not cut to limit
ProductResultNoSlice(rec, pool, sim, fallback, limit) ==
    LET recommendedProducts == ValidIds(rec.ids, pool)
    IN  IF rec.ok /\ Len(rec.ids) > 0
        THEN IF Len(recommendedProducts) >= limit
             THEN recommendedProducts
             ELSE Take(recommendedProducts \o Without(pool, Range(rec.ids)),
                       limit)
        ELSE ProductCategoryResult(sim, fallback, limit)

\* the product path from the answer of the rank function on
ProductResult(rec, pool, sim, fallback, limit) ==
    LET recommendedProducts == Take(ValidIds(rec.ids, pool), limit)
    IN  IF rec.ok /\ Len(rec.ids) > 0
        THEN IF Len(recommendedProducts) >= limit
             THEN recommendedProducts
             ELSE Take(recommendedProducts \o Without(pool, Range(rec.ids)),
                       limit)
        ELSE ProductCategoryResult(sim, fallback, limit)

\* faulty variant: an empty list is treated as an error
ReturnNonEmpty(list) ==
    IF list = <<>>
    THEN /\ outcome' = "rejected"
         /\ pc' = "done"
         /\ UNCHANGED result
    ELSE /\ result' = list
         /\ outcome' = "returned"
         /\ pc' = "done"

Return(list) ==
    /\ result' = list
    /\ outcome' = "returned"
    /\ pc' = "done"

Reject ==
    /\ outcome' = "rejected"
    /\ pc' = "done"
    /\ UNCHANGED result

catalogVars == <<impl, USE_OLLAMA, categories, scores, orderItems, now, req>>

rankVars == <<validIds, recommendedIds, strayIds>>

\* state that a request followed from await to await does not touch
sideVars == <<timer, tasks, cacheOrigin, componentVars>>

NoTimer == [armed |-> FALSE, due |-> 0]

NoOrigin == [readAt |-> 0, startedAt |-> 0, by |-> 0, overtook |-> FALSE]

\* const useOllama = USE_OLLAMA && (await isOllamaAvailable())
PrismaProbe ==
    /\ impl = "prisma" /\ pc = "start"
    /\ IF ProbeNeeded
       THEN \E probe \in ProbeOutcomes :
              /\ useOllama' = isOllamaAvailable(probe)
              /\ calls' = Append(calls, Call("probe", probe = "ok"))
       ELSE /\ useOllama' = FALSE
            /\ UNCHANGED calls
    /\ pc' = "fallback"
    /\ UNCHANGED <<catalogVars, sideVars, productsCache, fallbackProducts, similar,
                   productsToRank, rankVars, result, outcome>>

\* const fallbackProducts = await prisma.product.findMany(...), then the
\* dispatch on orderId / productId; a failed query reaches the outer catch
PrismaFallback ==
    /\ impl = "prisma" /\ pc = "fallback"
    /\ \E up \in BOOLEAN :
      /\ calls' = Append(calls, Call("db:fallback", up))
      /\ IF up
         THEN /\ fallbackProducts' = FallbackQuery(req.productId, req.limit)
              /\ IF req.orderId # 0
                 THEN pc' = "order" /\ UNCHANGED <<result, outcome>>
                 ELSE IF req.productId # 0
                      THEN pc' = "product" /\ UNCHANGED <<result, outcome>>
                      ELSE Return(fallbackProducts')
         ELSE /\ pc' = "catch"
              /\ UNCHANGED <<fallbackProducts, result, outcome>>
    /\ UNCHANGED <<catalogVars, sideVars, productsCache, useOllama, similar,
                   productsToRank, rankVars>>

\* const order = await prisma.order.findUnique(...) and the checks on it
PrismaOrderLookup ==
    /\ impl = "prisma" /\ pc = "order"
    /\ \E up \in BOOLEAN :
      /\ calls' = Append(calls, Call("db:order", up))
      /\ IF up /\ req.orderId = StoredOrderId /\ Len(orderItems) > 0
               /\ OrderCategoryIds # {}
         THEN pc' = "orderSimilar" /\ UNCHANGED <<result, outcome>>
         ELSE Return(fallbackProducts)
    /\ UNCHANGED <<catalogVars, sideVars, productsCache, useOllama, fallbackProducts,
                   similar, productsToRank, rankVars>>

\* similarCategoryProducts of the order path, and what follows it up to the
\* POST of getOllamaRecommendationsForOrder
PrismaOrderSimilar ==
    /\ impl = "prisma" /\ pc = "orderSimilar"
    /\ \E up \in BOOLEAN :
      /\ calls' = Append(calls, Call("db:similar", up))
      /\ IF up
         THEN /\ similar' = OrderSimilarQuery(req.limit)
              /\ IF useOllama /\ Len(similar') >= 2
                    /\ RankCallMade(similar', req.limit)
                 THEN /\ productsToRank' = similar'
                      /\ pc' = "rankOrder"
                      /\ UNCHANGED <<result, outcome>>
                 ELSE /\ Return(OrderCategoryResult(similar', fallbackProducts,
                                                    req.limit))
                      /\ UNCHANGED productsToRank
         ELSE /\ Return(fallbackProducts)
              /\ UNCHANGED <<similar, productsToRank>>
    /\ UNCHANGED <<catalogVars, sideVars, productsCache, useOllama, fallbackProducts,
                   rankVars>>

\* faulty variant: an order ranking that failed falls through to the
\* product path of the same request
PrismaRankOrderFallThrough ==
    /\ impl = "prisma" /\ pc = "rankOrder"
    /\ \E reply \in Replies :
         /\ calls' = Append(calls, Call("rank", reply.ok))
         /\ validIds' = OrderReplyIds(reply, productsToRank)
         /\ strayIds' = HasStrayId(reply, OrderReplyNumbers(reply.text),
                                   productsToRank)
         /\ recommendedIds' = getOllamaRecommendations(validIds', req.limit)
         /\ IF ~recommendedIds'.ok /\ req.productId # 0
            THEN pc' = "product" /\ UNCHANGED <<result, outcome>>
            ELSE Return(OrderResult(recommendedIds', similar, fallbackProducts,
                                    req.limit))
    /\ UNCHANGED <<catalogVars, sideVars, productsCache, useOllama, fallbackProducts,
                   similar, productsToRank>>

\* the POST of getOllamaRecommendationsForOrder is answered
PrismaRankOrder ==
    /\ impl = "prisma" /\ pc = "rankOrder"
    /\ \E reply \in Replies :
         /\ calls' = Append(calls, Call("rank", reply.ok))
         /\ validIds' = OrderReplyIds(reply, productsToRank)
         /\ strayIds' = HasStrayId(reply, OrderReplyNumbers(reply.text),
                                   productsToRank)
         /\ recommendedIds' = getOllamaRecommendations(validIds', req.limit)
         /\ Return(OrderResult(recommendedIds', similar, fallbackProducts,
                               req.limit))
    /\ UNCHANGED <<catalogVars, sideVars, productsCache, useOllama, fallbackProducts,
                   similar, productsToRank>>

\* const currentProduct = await prisma.product.findUnique(...)
PrismaProductLookup ==
    /\ impl = "prisma" /\ pc = "product"
    /\ \E up \in BOOLEAN :
      /\ calls' = Append(calls, Call("db:product", up))
      /\ IF up /\ req.productId \in Catalog /\ categories[req.productId] # {}
         THEN pc' = "productSimilar" /\ UNCHANGED <<result, outcome>>
         ELSE Return(fallbackProducts)
    /\ UNCHANGED <<catalogVars, sideVars, productsCache, useOllama, fallbackProducts,
                   similar, productsToRank, rankVars>>

\* from productsToRank on: rank if possible, else category products
ProductAfterPool(sim, pool) ==
    IF useOllama /\ RankCallMade(pool, req.limit)
    THEN pc' = "rankProduct" /\ UNCHANGED <<result, outcome>>
    ELSE Return(ProductCategoryResult(sim, fallbackProducts, req.limit))

\* similarCategoryProducts of the product path
PrismaProductSimilar ==
    /\ impl = "prisma" /\ pc = "productSimilar"
    /\ \E up \in BOOLEAN :
      /\ calls' = Append(calls, Call("db:similar", up))
      /\ IF up
         THEN /\ similar' = ProductSimilarQuery(req.productId)
              /\ productsToRank' = similar'
              /\ IF Len(similar') < req.limit
                 THEN pc' = "additional" /\ UNCHANGED <<result, outcome>>
                 ELSE ProductAfterPool(similar', similar')
         ELSE /\ Return(fallbackProducts)
              /\ UNCHANGED <<similar, productsToRank>>
    /\ UNCHANGED <<catalogVars, sideVars, productsCache, useOllama, fallbackProducts,
                   rankVars>>

\* additionalProducts: popular products that supplement the pool
PrismaAdditional ==
    /\ impl = "prisma" /\ pc = "additional"
    /\ \E up \in BOOLEAN :
      /\ calls' = Append(calls, Call("db:additional", up))
      /\ IF up
         THEN /\ productsToRank' =
                   similar \o AdditionalQuery(req.productId, similar, req.limit)
              /\ ProductAfterPool(similar, productsToRank')
         ELSE /\ Return(fallbackProducts)
              /\ UNCHANGED productsToRank
    /\ UNCHANGED <<catalogVars, sideVars, productsCache, useOllama, fallbackProducts,
                   similar, rankVars>>

\* the POST of getOllamaRecommendations is answered
PrismaRankProduct ==
    /\ impl = "prisma" /\ pc = "rankProduct"
    /\ \E reply \in Replies :
         /\ calls' = Append(calls, Call("rank", reply.ok))
         /\ validIds' = ProductReplyIds(reply, productsToRank)
         /\ strayIds' = HasStrayId(reply, ProductReplyNumbers(reply.text),
                                   productsToRank)
         /\ recommendedIds' = getOllamaRecommendations(validIds', req.limit)
         /\ Return(ProductResult(recommendedIds', productsToRank, similar,
                                 fallbackProducts, req.limit))
    /\ UNCHANGED <<catalogVars, sideVars, productsCache, useOllama, fallbackProducts,
                   similar, productsToRank>>

\* catch (error) { return getPopularProducts(limit); }: the promise of the
\* query is returned as it is, a failed query rejects the request
PrismaCatch ==
    /\ impl = "prisma" /\ pc = "catch"
    /\ \E up \in BOOLEAN :
      /\ calls' = Append(calls, Call("db:popular", up))
      /\ IF up THEN Return(getPopularProducts(req.limit)) ELSE Reject
    /\ UNCHANGED <<catalogVars, sideVars, productsCache, useOllama, fallbackProducts,
                   similar, productsToRank, rankVars>>

(* ------------------- mongoose: getRecommendations --------------------- *)
\* faulty variant: a snapshot of exactly the TTL still counts as fresh
CacheFreshAtTTL ==
    productsCache.loaded /\ now - productsCache.lastUpdate <= CacheTTL

\* if (productsCache.data && (now - productsCache.lastUpdate < 300000))
CacheFresh == productsCache.loaded /\ now - productsCache.lastUpdate < CacheTTL

\* p.id === id in the id filter and in similarProducts.find: p.id is the
\* ObjectId of the document, id the number parseInt gave; an object is never
\* strictly equal to a number
ObjectIdIsNumber(oid, n) == FALSE

\* similarProducts: same category, score at most 20 away, seed left out
MongoSimilar(products, productId, limit) ==
    Take(SelectSeq(products,
                   LAMBDA p : /\ p # productId
                              /\ SharesCategory(p, categories[productId])
                              /\ scores[p] - scores[productId] <= ScoreWindow
                              /\ scores[productId] - scores[p] <= ScoreWindow),
         limit * 2)

\* return similarProducts.length >= limit ? similarProducts.slice(0, limit)
\*                                        : fallbackProducts
MongoPlainResult(sim, fallback, limit) ==
    IF Len(sim) >= limit THEN Take(sim, limit) ELSE fallback

\* the id filter of the mongoose getOllamaRecommendations
MongoReplyIds(reply, pool) ==
    IF ~reply.ok THEN <<>>
    ELSE SelectSeq(Numbers(reply.text),
                   LAMBDA n : \E i \in 1..Len(pool) : ObjectIdIsNumber(pool[i], n))

\* getOllamaRecommendations of the mongoose implementation, POST answered
MongoRankOutcome(reply, ids, limit) ==
    IF ~reply.ok \/ Numbers(reply.text) = <<>> THEN NullIds
    ELSE SomeIds(Take(ids, limit))

\* if (recommendedIds?.length >= 2) { ... if (recommendations.length === limit)
MongoResult(rec, sim, fallback, limit) ==
    LET recommendations ==
          Take(SelectSeq(rec.ids, LAMBDA n : \E i \in 1..Len(sim) :
                                               ObjectIdIsNumber(sim[i], n)),
               limit)
    IN  IF rec.ok /\ Len(rec.ids) >= 2 /\ Len(recommendations) = limit
        THEN recommendations
        ELSE MongoPlainResult(sim, fallback, limit)

\* getProductsWithOrderCounts() followed by products.sort(...): the array
\* sorted is the cached array itself
MongoProducts ==
    IF CacheFresh THEN SortByCountDesc(productsCache.data)
    ELSE SortByCountDesc(AllProducts)

MongoCacheAfter(products) ==
    [loaded |-> TRUE, data |-> products,
     lastUpdate |-> IF CacheFresh THEN productsCache.lastUpdate ELSE now]

\* const products = await getProductsWithOrderCounts() and the synchronous
\* code up to the availability probe
MongoLoad ==
    /\ impl = "mongoose" /\ pc = "start"
    /\ \E up \in BOOLEAN :
      /\ calls' = IF CacheFresh THEN calls
                  ELSE Append(calls, Call("db:products", up))
      /\ IF up \/ CacheFresh
         THEN LET products == MongoProducts
                  found == req.productId \in Range(products)
              IN  /\ productsCache' = MongoCacheAfter(products)
                  /\ fallbackProducts' = Take(products, req.limit)
                  /\ IF req.productId = 0 \/ ~found
                     THEN /\ Return(fallbackProducts')
                          /\ UNCHANGED similar
                     ELSE /\ similar' = MongoSimilar(products, req.productId,
                                                     req.limit)
                          /\ IF ProbeNeeded
                             THEN pc' = "probe" /\ UNCHANGED <<result, outcome>>
                             ELSE Return(MongoPlainResult(similar',
                                            fallbackProducts', req.limit))
         ELSE /\ pc' = "catch"
              /\ UNCHANGED <<productsCache, fallbackProducts, similar, result,
                             outcome>>
    /\ UNCHANGED <<catalogVars, sideVars, useOllama, productsToRank, rankVars>>

\* USE_OLLAMA && await isOllamaAvailable() && similarProducts.length >= limit
MongoProbe ==
    /\ impl = "mongoose" /\ pc = "probe"
    /\ \E probe \in ProbeOutcomes :
         /\ useOllama' = isOllamaAvailable(probe)
         /\ calls' = Append(calls, Call("probe", probe = "ok"))
         /\ IF useOllama' /\ RankCallMade(similar, req.limit)
            THEN /\ productsToRank' = similar
                 /\ pc' = "rank"
                 /\ UNCHANGED <<result, outcome>>
            ELSE /\ Return(MongoPlainResult(similar, fallbackProducts,
                                            req.limit))
                 /\ UNCHANGED productsToRank
    /\ UNCHANGED <<catalogVars, sideVars, productsCache, fallbackProducts, similar,
                   rankVars>>

\* the POST of getOllamaRecommendations is answered
MongoRank ==
    /\ impl = "mongoose" /\ pc = "rank"
    /\ \E reply \in Replies :
         /\ calls' = Append(calls, Call("rank", reply.ok))
         /\ validIds' = MongoReplyIds(reply, productsToRank)
         /\ strayIds' = (reply.ok /\ Len(validIds') < Len(Numbers(reply.text)))
         /\ recommendedIds' = MongoRankOutcome(reply, validIds', req.limit)
         /\ Return(MongoResult(recommendedIds', similar, fallbackProducts,
                               req.limit))
    /\ UNCHANGED <<catalogVars, sideVars, productsCache, useOllama, fallbackProducts,
                   similar, productsToRank>>

\* catch (error) { return getPopularProducts(limit); }
MongoCatch ==
    /\ impl = "mongoose" /\ pc = "catch"
    /\ \E up \in BOOLEAN :
      /\ calls' = IF CacheFresh THEN calls
                  ELSE Append(calls, Call("db:products", up))
      /\ IF up \/ CacheFresh
         THEN /\ productsCache' = MongoCacheAfter(MongoProducts)
              /\ Return(Take(MongoProducts, req.limit))
         ELSE Reject /\ UNCHANGED productsCache
    /\ UNCHANGED <<catalogVars, sideVars, useOllama, fallbackProducts, similar,
                   productsToRank, rankVars>>

(* ------------------ getPopularProducts called directly ---------------- *)
\* export async function getPopularProducts(limit): the exported helper as
\* an entry point of its own; a failed query rejects the caller's promise
PrismaGetPopular ==
    /\ impl = "prisma" /\ pc = "popular"
    /\ \E up \in BOOLEAN :
      /\ calls' = Append(calls, Call("db:popular", up))
      /\ IF up THEN Return(getPopularProducts(req.limit)) ELSE Reject
    /\ UNCHANGED <<catalogVars, sideVars, productsCache, useOllama, fallbackProducts,
                   similar, productsToRank, rankVars>>

\* export async function getPopularProducts(limit) over the cached accessor
MongoGetPopular ==
    /\ impl = "mongoose" /\ pc = "popular"
    /\ \E up \in BOOLEAN :
      /\ calls' = IF CacheFresh THEN calls
                  ELSE Append(calls, Call("db:products", up))
      /\ IF up \/ CacheFresh
         THEN /\ productsCache' = MongoCacheAfter(MongoProducts)
              /\ Return(Take(MongoProducts, req.limit))
         ELSE Reject /\ UNCHANGED productsCache
    /\ UNCHANGED <<catalogVars, sideVars, useOllama, fallbackProducts, similar,
                   productsToRank, rankVars>>

(* ---------------------------- specification --------------------------- *)
\* the line items of the stored order: distinct products, by ascending id
\* (the code reads an order's items as a set of product ids and of categories)
OrderItemLists(n) ==
    {s \in SeqsUpTo(1..n, MaxOrderItems) :
        \A i \in 1..(Len(s) - 1) : s[i] < s[i + 1]}

Requests(n, orderIds) ==
    [productId : {0, MissingId} \cup (1..n), orderId : orderIds,
     limit : 1..MaxLimit]

\* Category names are compared for equality only, so exchanging "A" and "B"
\* all over a catalog changes no result: of each such pair of catalogs the
\* one whose first single-category product is in "A" is taken.
CanonicalCategories(cats) ==
    \A p \in DOMAIN cats :
        cats[p] = {"B"} => \E q \in 1..(p - 1) : cats[q] = {"A"}

\* Scores are compared with each other only (the window test), so exchanging
\* the two scores all over a catalog changes no result either.
CanonicalScores(sc) == \A p \in DOMAIN sc : p = 1 => sc[p] = 40

InitAt(entry) ==
    /\ ComponentsAtRest
    /\ impl \in {"prisma", "mongoose"}
    /\ USE_OLLAMA \in BOOLEAN
    /\ \E n \in 0..NumProducts :
         /\ categories \in {cats \in [1..n -> IF impl = "prisma"
                                              THEN SUBSET Categories
                                              ELSE {{c} : c \in Categories}] :
                              CanonicalCategories(cats)}
         /\ scores \in {sc \in [1..n -> IF impl = "prisma" THEN {40} ELSE Scores] :
                          CanonicalScores(sc)}
         /\ orderItems \in OrderItemLists(n)
         /\ req \in Requests(n, IF impl = "prisma"
                                THEN {0, StoredOrderId, StoredOrderId + 1}
                                ELSE {0})
    /\ productsCache = [loaded |-> FALSE, data |-> <<>>, lastUpdate |-> 0]
    /\ now = CacheTTL
    /\ pc = entry
    /\ entry = "popular" => req.productId = 0 /\ req.orderId = 0
    /\ useOllama = FALSE
    /\ fallbackProducts = <<>>
    /\ similar = <<>>
    /\ productsToRank = <<>>
    /\ validIds = <<>>
    /\ recommendedIds = NullIds
    /\ strayIds = FALSE
    /\ result = <<>>
    /\ outcome = "pending"
    /\ calls = <<>>
    /\ timer = NoTimer
    /\ tasks = <<>>
    /\ cacheOrigin = NoOrigin

\* one call of getRecommendations
Init == InitAt("start")

Next ==
    \/ PrismaProbe
    \/ PrismaFallback
    \/ PrismaOrderLookup
    \/ PrismaOrderSimilar
    \/ PrismaRankOrder
    \/ PrismaProductLookup
    \/ PrismaProductSimilar
    \/ PrismaAdditional
    \/ PrismaRankProduct
    \/ PrismaCatch
    \/ MongoLoad
    \/ MongoProbe
    \/ MongoRank
    \/ MongoCatch

Spec == Init /\ [][Next]_vars

\* one call of either exported entry point: getRecommendations or
\* getPopularProducts
EntryInit == InitAt("start") \/ InitAt("popular")

EntryNext ==
    \/ Next
    \/ PrismaGetPopular
    \/ MongoGetPopular

EntrySpec == EntryInit /\ [][EntryNext]_vars

(* --------------- one ranking call against the wall clock -------------- *)
\* The rank functions seen from inside: the POST is sent, the promise of
\* fetch settles when the status line and headers are in, response.json()
\* settles when the body is in.  The endpoint may do each of these or never
\* do it; the clock advances and a due timer runs.
OLLAMA_TIMEOUT_MS == 15000

TickMs == 5000          \* the clock advances in steps of TickMs
MaxNow == 20000         \* the clock is followed up to MaxNow

\* the three rank functions, by the request that calls them
RankFunction ==
    IF impl = "mongoose" THEN "mongoose"
    ELSE IF req.orderId # 0 THEN "order" ELSE "product"

\* part_000: clearTimeout(timeoutId) once fetch has settled with a response;
\* part_012: the AbortSignal.timeout of the request stays in force
TimerAfterFetch ==
    IF impl = "prisma" THEN [armed |-> FALSE, due |-> timer.due] ELSE timer

\* the ids a rank function finds in a body and the value it returns for them
RankParse(text) ==
    LET reply == [ok |-> TRUE, text |-> text]
        ids == CASE RankFunction = "product" ->
                      ProductReplyIds(reply, productsToRank)
                 [] RankFunction = "order" ->
                      OrderReplyIds(reply, productsToRank)
                 [] OTHER -> MongoReplyIds(reply, productsToRank)
    IN  [ids |-> ids,
         value |-> IF impl = "mongoose"
                   THEN MongoRankOutcome(reply, ids, req.limit)
                   ELSE getOllamaRecommendations(ids, req.limit)]

rankCallFrame == <<impl, USE_OLLAMA, categories, scores, orderItems,
                   productsCache, req, useOllama, fallbackProducts, similar,
                   productsToRank, result, outcome, tasks, cacheOrigin,
                   componentVars>>

\* return null
RankReturnsNull ==
    /\ recommendedIds' = NullIds
    /\ pc' = "done"
    /\ UNCHANGED <<validIds, strayIds>>

\* entry of the rank function: the length guard, then setTimeout / the
\* timeout signal and the POST
RankEnter ==
    /\ pc = "enter"
    /\ IF RankCallMade(productsToRank, req.limit)
       THEN /\ timer' = [armed |-> TRUE, due |-> now + OLLAMA_TIMEOUT_MS]
            /\ pc' = "fetch"
            /\ UNCHANGED <<rankVars>>
       ELSE RankReturnsNull /\ UNCHANGED timer
    /\ UNCHANGED <<rankCallFrame, now, calls>>

\* await fetch(...) settles with a response: status ok or not
RankFetchAnswered ==
    /\ pc = "fetch"
    /\ \E statusOk \in BOOLEAN :
         /\ calls' = Append(calls, Call("rank", statusOk))
         /\ IF statusOk
            THEN pc' = "json" /\ UNCHANGED rankVars
            ELSE RankReturnsNull
    /\ timer' = TimerAfterFetch
    /\ UNCHANGED <<rankCallFrame, now>>

\* await fetch(...) rejects: the connection failed
RankFetchFailed ==
    /\ pc = "fetch"
    /\ calls' = Append(calls, Call("rank", FALSE))
    /\ RankReturnsNull
    /\ UNCHANGED <<rankCallFrame, now, timer>>

\* await response.json() settles with the body
RankBodyArrives ==
    /\ pc = "json"
    /\ \E text \in SeqsUpTo(Tokens, MaxRespLen) :
         /\ validIds' = RankParse(text).ids
         /\ recommendedIds' = RankParse(text).value
         /\ strayIds' = (Len(validIds') < Len(Numbers(text)))
    /\ pc' = "done"
    /\ UNCHANGED <<rankCallFrame, now, timer, calls>>

\* await response.json() rejects, or the body has no response text
RankBodyFails ==
    /\ pc = "json"
    /\ RankReturnsNull
    /\ UNCHANGED <<rankCallFrame, now, timer, calls>>

\* the timer is due: the request is aborted, the pending await rejects and
\* the catch block returns null; after the call has returned nothing happens
RankTimeout ==
    /\ timer.armed /\ now >= timer.due
    /\ timer' = [armed |-> FALSE, due |-> timer.due]
    /\ IF pc \in {"fetch", "json"}
       THEN RankReturnsNull /\ calls' = Append(calls, Call("abort", TRUE))
       ELSE UNCHANGED <<pc, rankVars, calls>>
    /\ UNCHANGED <<rankCallFrame, now>>

\* time is counted from the entry of the rank function
RankTick ==
    /\ pc # "enter"
    /\ now < MaxNow
    /\ now' = now + TickMs
    /\ UNCHANGED <<rankCallFrame, pc, rankVars, calls, timer>>

\* candidate pools: the first k products
RankPools == {[i \in 1..k |-> i] : k \in 1..NumProducts}

RankCallInit ==
    /\ ComponentsAtRest
    /\ impl \in {"prisma", "mongoose"}
    /\ USE_OLLAMA = TRUE
    /\ categories = [p \in 1..NumProducts |-> {"A"}]
    /\ scores = [p \in 1..NumProducts |-> 40]
    /\ orderItems = <<>>
    /\ req \in [productId : {MissingId},
                orderId : IF impl = "prisma" THEN {0, StoredOrderId} ELSE {0},
                limit : 1..MaxLimit]
    /\ productsCache = [loaded |-> FALSE, data |-> <<>>, lastUpdate |-> 0]
    /\ now = 0
    /\ pc = "enter"
    /\ useOllama = TRUE
    /\ fallbackProducts = <<>>
    /\ similar = <<>>
    /\ productsToRank \in RankPools
    /\ validIds = <<>>
    /\ recommendedIds = NullIds
    /\ strayIds = FALSE
    /\ result = <<>>
    /\ outcome = "pending"
    /\ calls = <<>>
    /\ timer = NoTimer
    /\ tasks = <<>>
    /\ cacheOrigin = NoOrigin

RankCallNext ==
    \/ RankEnter
    \/ RankFetchAnswered
    \/ RankFetchFailed
    \/ RankBodyArrives
    \/ RankBodyFails
    \/ RankTimeout
    \/ RankTick

\* The endpoint owes nothing; the function's own code runs, the clock
\* advances and a due timer fires.
RankCallSpec ==
    RankCallInit /\ [][RankCallNext]_vars
    /\ WF_vars(RankEnter) /\ WF_vars(RankTick) /\ WF_vars(RankTimeout)

(* ------------- concurrent requests against productsCache ------------- *)
\* part_012 with several requests in flight and a clock that advances.  A
\* request is suspended at the awaits of getProductsWithOrderCounts
\* (Product.find, Order.aggregate), of the probe and of the ranking call;
\* code between two awaits runs without interruption.
NumRequests == 2        \* requests in flight
CacheProducts == 2      \* largest catalog of this part
TaskMaxLimit == 2       \* these requests ask for 1..TaskMaxLimit products

\* the instants the clock is looked at: the start, the last instant at
\* which data of the start are fresh, the first at which they are not
Instants == {0, CacheTTL - 1, CacheTTL}

\* a request that has not started; calledAt, readAt, fallback and similar
\* are locals of the call
NewTask(kind, productId, limit) ==
    [kind |-> kind, productId |-> productId, limit |-> limit, pc |-> "idle",
     inCatch |-> FALSE, calledAt |-> 0, readAt |-> 0, fromCache |-> FALSE,
     staleServed |-> FALSE, failed |-> FALSE, useOllama |-> FALSE,
     fallback |-> <<>>, similar |-> <<>>, result |-> <<>>,
     outcome |-> "pending"]

\* the call is over: its locals are gone
TaskEnds(t, list, outcome_) ==
    [t EXCEPT !.pc = "done", !.result = list, !.outcome = outcome_,
              !.calledAt = 0, !.readAt = 0, !.fallback = <<>>,
              !.similar = <<>>]

TaskReturns(t, list) == TaskEnds(t, list, "returned")

\* data read from storage at readAt are CacheTTL old or older for a call
\* that started at calledAt
TooOld(calledAt, readAt) == calledAt - readAt >= CacheTTL

\* faulty variant: the timestamp of the cache never goes back
RefillWriteKeepLatest(rows, startedAt) ==
    [loaded |-> TRUE, data |-> rows,
     lastUpdate |-> IF productsCache.lastUpdate > startedAt
                    THEN productsCache.lastUpdate ELSE startedAt]

\* productsCache.data = productsWithCounts; productsCache.lastUpdate = now,
\* now being the time the call of getProductsWithOrderCounts started
RefillWrite(rows, startedAt) ==
    [loaded |-> TRUE, data |-> rows, lastUpdate |-> startedAt]

\* products.sort(...) on the array getProductsWithOrderCounts returned: that
\* array is productsCache.data itself
SortedInPlace(cache) == [cache EXCEPT !.data = SortByCountDesc(@)]

\* faulty variant: a read of the cache renews its timestamp
CacheAfterServeTouch ==
    [SortedInPlace(productsCache) EXCEPT !.lastUpdate = now]

\* the cache after a request was served from it
CacheAfterServe == SortedInPlace(productsCache)

\* getRecommendations / getPopularProducts from the return of
\* getProductsWithOrderCounts to the next await or to the return
AfterProducts(t, cache) ==
    LET sorted == SortByCountDesc(cache.data)
        fb == Take(sorted, t.limit)
        sim == MongoSimilar(sorted, t.productId, t.limit)
    IN  IF t.kind = "popular" \/ t.inCatch THEN TaskReturns(t, fb)
        ELSE IF t.productId = 0 \/ t.productId \notin Range(sorted)
        THEN TaskReturns(t, fb)
        ELSE IF ProbeNeeded
        THEN [t EXCEPT !.pc = "probe", !.fallback = fb, !.similar = sim]
        ELSE TaskReturns(t, MongoPlainResult(sim, fb, t.limit))

\* entry of getProductsWithOrderCounts at time now: the cached array if it
\* is fresh, else the first query is sent
EnterAccessor(t) ==
    IF CacheFresh
    THEN [task |-> AfterProducts(
                     [t EXCEPT !.calledAt = now, !.fromCache = TRUE,
                               !.staleServed =
                                   TooOld(now, cacheOrigin.readAt)],
                     productsCache),
          cache |-> CacheAfterServe]
    ELSE [task |-> [t EXCEPT !.calledAt = now, !.fromCache = FALSE,
                             !.pc = "find"],
          cache |-> productsCache]

\* a query of getProductsWithOrderCounts threw: getRecommendations catches
\* and calls getPopularProducts, which has no handler of its own
AccessorFailed(t) ==
    IF t.kind = "recommend" /\ ~t.inCatch
    THEN EnterAccessor([t EXCEPT !.inCatch = TRUE, !.failed = TRUE])
    ELSE [task |-> TaskEnds([t EXCEPT !.failed = TRUE], <<>>, "rejected"),
          cache |-> productsCache]

cacheFrame == <<impl, USE_OLLAMA, categories, scores, orderItems, req, pc,
                useOllama, fallbackProducts, similar, productsToRank,
                rankVars, result, outcome, calls, timer, componentVars>>

\* a request arrives and calls getProductsWithOrderCounts
TaskCall(r) ==
    /\ tasks[r].pc = "idle"
    /\ tasks' = [tasks EXCEPT ![r] = EnterAccessor(tasks[r]).task]
    /\ productsCache' = EnterAccessor(tasks[r]).cache
    /\ UNCHANGED <<cacheFrame, now, cacheOrigin>>

\* await Product.find().lean()
TaskFind(r) ==
    /\ tasks[r].pc = "find"
    /\ \E up \in BOOLEAN :
         IF up
         THEN /\ tasks' = [tasks EXCEPT ![r].pc = "aggregate",
                                        ![r].readAt = now]
              /\ UNCHANGED productsCache
         ELSE /\ tasks' = [tasks EXCEPT ![r] = AccessorFailed(tasks[r]).task]
              /\ productsCache' = AccessorFailed(tasks[r]).cache
    /\ UNCHANGED <<cacheFrame, now, cacheOrigin>>

\* await Order.aggregate(...), the join, the write of the cache and the
\* caller's code that follows the return
TaskAggregate(r) ==
    /\ tasks[r].pc = "aggregate"
    /\ \E up \in BOOLEAN :
         IF up
         THEN LET written == RefillWrite(AllProducts, tasks[r].calledAt)
                  t == [tasks[r] EXCEPT !.staleServed =
                                   TooOld(tasks[r].calledAt, tasks[r].readAt)]
              IN  /\ tasks' = [tasks EXCEPT ![r] = AfterProducts(t, written)]
                  /\ productsCache' = SortedInPlace(written)
                  /\ cacheOrigin' =
                       [readAt |-> tasks[r].readAt,
                        startedAt |-> tasks[r].calledAt,
                        by |-> r,
                        overtook |-> \/ cacheOrigin.overtook
                                     \/ /\ productsCache.loaded
                                        /\ productsCache.lastUpdate
                                             > tasks[r].calledAt]
         ELSE /\ tasks' = [tasks EXCEPT ![r] = AccessorFailed(tasks[r]).task]
              /\ productsCache' = AccessorFailed(tasks[r]).cache
              /\ UNCHANGED cacheOrigin
    /\ UNCHANGED <<cacheFrame, now>>

\* USE_OLLAMA && await isOllamaAvailable() && similarProducts.length >= limit
TaskProbe(r) ==
    /\ tasks[r].pc = "probe"
    /\ \E probe \in ProbeOutcomes :
         LET t == [tasks[r] EXCEPT !.useOllama = isOllamaAvailable(probe)]
         IN  tasks' = [tasks EXCEPT ![r] =
                 IF t.useOllama /\ RankCallMade(t.similar, t.limit)
                 THEN [t EXCEPT !.pc = "rank"]
                 ELSE TaskReturns(t, MongoPlainResult(t.similar, t.fallback,
                                                      t.limit))]
    /\ UNCHANGED <<cacheFrame, now, productsCache, cacheOrigin>>

\* the ranking call is answered
TaskRank(r) ==
    /\ tasks[r].pc = "rank"
    /\ \E reply \in Replies :
         LET t == tasks[r]
             rec == MongoRankOutcome(reply, MongoReplyIds(reply, t.similar),
                                     t.limit)
         IN  tasks' = [tasks EXCEPT ![r] =
                 TaskReturns(t, MongoResult(rec, t.similar, t.fallback,
                                            t.limit))]
    /\ UNCHANGED <<cacheFrame, now, productsCache, cacheOrigin>>

ClockTick ==
    /\ \E t \in Instants : t > now /\ now' = t
    /\ UNCHANGED <<cacheFrame, tasks, productsCache, cacheOrigin>>

\* the calls made: getPopularProducts(limit), getRecommendations without a
\* productId, with the id of the first product, with an id no product has
TaskInputs(n, limit) ==
    {NewTask("popular", 0, limit)}
    \cup {NewTask("recommend", productId, limit) :
            productId \in {0, MissingId} \cup (1..Min(n, 1))}

CacheInit ==
    /\ ComponentsAtRest
    /\ impl = "mongoose"
    /\ USE_OLLAMA \in BOOLEAN
    /\ \E n \in 0..CacheProducts :
         /\ categories \in {cats \in [1..n -> {{c} : c \in Categories}] :
                              CanonicalCategories(cats)}
         /\ scores = [p \in 1..n |-> 40]
         /\ orderItems \in OrderItemLists(n)
         /\ \E limit \in 1..TaskMaxLimit :
              tasks \in [1..NumRequests -> TaskInputs(n, limit)]
    /\ productsCache = [loaded |-> FALSE, data |-> <<>>, lastUpdate |-> 0]
    /\ cacheOrigin = NoOrigin
    /\ now = 0
    /\ req = [productId |-> 0, orderId |-> 0, limit |-> 1]
    /\ pc = "tasks"
    /\ useOllama = FALSE
    /\ fallbackProducts = <<>>
    /\ similar = <<>>
    /\ productsToRank = <<>>
    /\ validIds = <<>>
    /\ recommendedIds = NullIds
    /\ strayIds = FALSE
    /\ result = <<>>
    /\ outcome = "pending"
    /\ calls = <<>>
    /\ timer = NoTimer

CacheNext ==
    \/ \E r \in 1..NumRequests : TaskCall(r)
    \/ \E r \in 1..NumRequests : TaskFind(r)
    \/ \E r \in 1..NumRequests : TaskAggregate(r)
    \/ \E r \in 1..NumRequests : TaskProbe(r)
    \/ \E r \in 1..NumRequests : TaskRank(r)
    \/ ClockTick

CacheSpec == CacheInit /\ [][CacheNext]_vars

(* ------------------------- reading the call log ----------------------- *)
Called(name) == \E i \in 1..Len(calls) : calls[i].call = name

Failed(name) == \E i \in 1..Len(calls) : calls[i].call = name /\ ~calls[i].ok

\* the probe was sent and met a network failure, a non-success status or
\* its timeout
ProbeFailed == Failed("probe")

AnyQueryFailed ==
    \E i \in 1..Len(calls) : calls[i].call \notin {"probe", "rank"} /\ ~calls[i].ok

\* What the request returns when the LLM is switched off, as a function of
\* the catalog, the request and the queries that failed: the code of
\* getRecommendations read with useOllama = false.
PrismaNoRankResult ==
    LET fb == FallbackQuery(req.productId, req.limit)
    IN  IF Failed("db:fallback") THEN getPopularProducts(req.limit)
        ELSE IF req.orderId # 0
        THEN IF \/ Failed("db:order") \/ req.orderId # StoredOrderId
                \/ Len(orderItems) = 0 \/ OrderCategoryIds = {}
                \/ Failed("db:similar")
             THEN fb
             ELSE OrderCategoryResult(OrderSimilarQuery(req.limit), fb, req.limit)
        ELSE IF req.productId # 0
        THEN IF \/ Failed("db:product") \/ req.productId \notin Catalog
                \/ categories[req.productId] = {}
                \/ Failed("db:similar") \/ Failed("db:additional")
             THEN fb
             ELSE ProductCategoryResult(ProductSimilarQuery(req.productId), fb,
                                        req.limit)
        ELSE fb

MongoNoRankResult ==
    LET products == SortByCountDesc(AllProducts)
        fb == Take(products, req.limit)
    IN  IF Failed("db:products") \/ req.productId = 0
           \/ req.productId \notin Catalog
        THEN fb
        ELSE MongoPlainResult(MongoSimilar(products, req.productId, req.limit),
                              fb, req.limit)

NoRankResult == IF impl = "prisma" THEN PrismaNoRankResult ELSE MongoNoRankResult

\* the products other than the seed that share a category with it
CategoryMatches(productId) ==
    SelectSeq(AllProducts,
              LAMBDA p : p # productId /\ categories[p] \cap categories[productId] # {})

(* ------------------------------- claims ------------------------------- *)
\* C1: getRecommendations never surfaces an error to its caller: whatever
\* queries fail, also the one of the top-level error handler, the request
\* completes with a list and is never rejected.
C1_NeverRejects == outcome # "rejected"

\* C2: the returned list contains no product id more than once, for any
\* request, catalog and LLM answer.
C2_NoDuplicateIds == outcome = "returned" => NoDuplicates(result)

\* C3: for a request with an orderId that resolves to a non-empty order, no
\* product that is a line item of the order is in the returned list.
C3_OrderItemsExcluded ==
    (outcome = "returned" /\ req.orderId = StoredOrderId /\ Len(orderItems) > 0)
        => Range(result) \cap Range(orderItems) = {}

\* C4: for a request with a productId, the product with that id is never in
\* the returned list, on any path.
C4_SeedExcluded ==
    (outcome = "returned" /\ req.productId # 0)
        => req.productId \notin Range(result)

\* C5: the returned list has at most limit entries.
C5_AtMostLimit == outcome = "returned" => Len(result) <= req.limit

\* C5 witness: the ranker named more candidates than asked for and the list
\* returned holds exactly limit of them.
C5_Witness ==
    /\ outcome = "returned"
    /\ Called("rank")
    /\ Len(validIds) > req.limit
    /\ Len(result) = req.limit

\* C6: with the ranker disabled or unavailable, a product-seeded request
\* whose seed has c category matches, 0 < c < limit, returns those c
\* candidates in selection order followed by fallback products not among
\* them, up to limit entries.
C6_CandidatesThenPadding ==
    (/\ outcome = "returned"
     /\ ~USE_OLLAMA \/ ProbeFailed
     /\ ~AnyQueryFailed
     /\ req.orderId = 0
     /\ req.productId \in Catalog
     /\ Len(CategoryMatches(req.productId)) > 0
     /\ Len(CategoryMatches(req.productId)) < req.limit)
        => result = Take(CategoryMatches(req.productId)
                         \o Without(FallbackQuery(req.productId, req.limit),
                                    Range(CategoryMatches(req.productId))),
                         req.limit)

\* C7: with USE_OLLAMA = false no call goes to the LLM service, neither the
\* availability probe nor a ranking request.
C7_DisabledMakesNoLlmCall ==
    ~USE_OLLAMA => (~Called("probe") /\ ~Called("rank"))

\* C7 witness: a request served with the LLM disabled whose candidate pool
\* was large enough for a ranking attempt.
C7_Witness ==
    /\ ~USE_OLLAMA
    /\ outcome = "returned"
    /\ req.productId \in Catalog
    /\ Len(similar) >= 2
    /\ Len(similar) >= req.limit

\* C8: a request whose availability probe failed issues no ranking call, and
\* returns what the same request returns with the LLM disabled.
C8_ProbeFailedSkipsRanking ==
    /\ ProbeFailed => ~Called("rank")
    /\ (outcome = "returned" /\ (ProbeFailed \/ ~USE_OLLAMA))
          => result = NoRankResult

\* C8 witness: the probe failed for a request whose candidate pool was large
\* enough for a ranking attempt.
C8_Witness ==
    /\ ProbeFailed
    /\ outcome = "returned"
    /\ ~AnyQueryFailed
    /\ Len(similar) >= 2
    /\ Len(similar) >= req.limit

\* C9: if the answer of the ranker holds fewer than min(2, limit) valid
\* candidate ids, the request returns exactly the list it returns without
\* ranking, never a partially ranked list.
C9_TooFewIdsRejected ==
    (outcome = "returned" /\ Called("rank") /\ Len(validIds) < Min(2, req.limit))
        => result = NoRankResult

\* C9 witness: the answer named exactly one valid candidate where two were
\* needed.
C9_Witness ==
    /\ outcome = "returned"
    /\ Called("rank")
    /\ req.limit >= 2
    /\ Len(validIds) = 1

\* C10: when ranking succeeds the result follows the order of the ranker:
\* the first limit valid ids if there are that many, else all of them
\* followed by candidates not yet chosen, in candidate-selection order.
C10_RankerOrderKept ==
    (outcome = "returned" /\ Called("rank") /\ Len(validIds) >= Min(2, req.limit))
        => result = IF Len(validIds) >= req.limit
                    THEN Take(validIds, req.limit)
                    ELSE validIds
                         \o Take(Without(productsToRank, Range(validIds)),
                                 req.limit - Len(validIds))

\* C10 witness: the ranker named fewer ids than asked for and the remaining
\* slots were filled from the candidate pool.
C10_Witness ==
    /\ outcome = "returned"
    /\ Called("rank")
    /\ Len(validIds) >= 2
    /\ Len(validIds) < req.limit
    /\ Len(result) = req.limit

\* C11: the candidate pool handed to the ranker holds at most limit * 2
\* products, in the product-seeded and in the order-seeded mode.
C11_PoolAtMostTwiceLimit ==
    (pc \in {"rankOrder", "rankProduct", "rank"} \/ Called("rank"))
        => Len(productsToRank) <= req.limit * 2

\* the category candidates of a product-seeded request have been selected
CandidatesSelected ==
    /\ req.orderId = 0
    /\ req.productId \in Catalog
    /\ ~AnyQueryFailed
    /\ IF impl = "prisma" THEN Called("db:similar") ELSE Called("db:products")

\* C12: product-seeded selection qualifies a product by category overlap
\* alone: every candidate is a product other than the seed that shares a
\* category with it, and every such product is a candidate unless the cap of
\* limit * 2 candidates is reached.
C12_CategoryOverlapAlone ==
    CandidatesSelected =>
        /\ Range(similar) \subseteq Range(CategoryMatches(req.productId))
        /\ \/ Range(CategoryMatches(req.productId)) \subseteq Range(similar)
           \/ Len(similar) >= req.limit * 2

\* number of calls of one kind in the log
CallCount(name) == Cardinality({i \in 1..Len(calls) : calls[i].call = name})

\* C14: a request issues at most one ranking call and at most one probe, on
\* every path, also when it carries both an orderId and a productId; a
\* failed probe or ranking is not tried again.
C14_AtMostOneRankCall == CallCount("rank") <= 1 /\ CallCount("probe") <= 1

\* C14 witness: a request with both an orderId and a productId whose ranking
\* call failed.
C14_Witness ==
    /\ outcome = "returned"
    /\ req.orderId # 0 /\ req.productId \in Catalog
    /\ Failed("rank")

\* C15: the popularity fallback list is computed first: every probe, order
\* lookup, seed lookup and ranking call of a request comes after the query
\* that yields the fallback list.
C15_FallbackComputedFirst ==
    \A i \in 1..Len(calls) :
        calls[i].call \in {"probe", "db:order", "db:product", "rank"}
            => \E j \in 1..(i - 1) :
                  calls[j].call \in {"db:fallback", "db:products"} /\ calls[j].ok

\* C13: every ranking call returns, whatever the endpoint does: a request
\* not completed (answer received and parsed) when the timeout of 15 s is
\* due is cancelled and the rank function returns null.
C13_RankCallReturns == <>(pc = "done")

\* C16: the cached snapshot is returned only while now - lastUpdate is
\* below 5 minutes, so no call gets product data that were read from storage
\* 5 minutes or more before it started, however refills interleave.
C16_NoDataOlderThanTTL ==
    /\ \A r \in DOMAIN tasks : ~tasks[r].staleServed
    /\ CacheFresh => ~TooOld(now, cacheOrigin.readAt)
    /\ productsCache.loaded => cacheOrigin.readAt >= productsCache.lastUpdate

\* C16 witness: a call made when the snapshot is exactly 5 minutes old does
\* not get it and has sent its own query.
C16_Witness ==
    \E r \in DOMAIN tasks :
        /\ tasks[r].pc = "find"
        /\ productsCache.loaded
        /\ tasks[r].calledAt - productsCache.lastUpdate = CacheTTL

\* C17: concurrent refills each recompute the snapshot, and the cache holds
\* the complete snapshot and the timestamp of the refill that finished last,
\* both from that one refill.
C17_LastRefillWins ==
    productsCache.loaded =>
        /\ productsCache.lastUpdate = cacheOrigin.startedAt
        /\ Range(productsCache.data) = Catalog
        /\ Len(productsCache.data) = Cardinality(Catalog)
        /\ cacheOrigin.by \in DOMAIN tasks
        /\ tasks[cacheOrigin.by].pc \notin {"idle", "find", "aggregate"}
        /\ ~tasks[cacheOrigin.by].fromCache

\* C17 witness: two refills overlapped and the one that started first
\* finished last; both requests are over.
C17_Witness ==
    /\ cacheOrigin.overtook
    /\ \A r \in DOMAIN tasks : tasks[r].pc = "done" /\ ~tasks[r].fromCache
    /\ productsCache.lastUpdate = 0

\* C18: a step of a request that is served from a fresh cache leaves the
\* cached snapshot as it is: its elements, their order and its timestamp.
C18_FreshServeLeavesCache ==
    [][\A r \in DOMAIN tasks :
          (tasks'[r] # tasks[r] /\ tasks'[r].fromCache)
              => productsCache' = productsCache]_vars

\* C18 witness: getPopularProducts was served from a cache of two or more
\* products at a later instant than the one the cache was written at.
C18_Witness ==
    \E r \in DOMAIN tasks :
        /\ tasks[r].kind = "popular"
        /\ tasks[r].fromCache
        /\ tasks[r].outcome = "returned"
        /\ Len(productsCache.data) >= 2
        /\ now > productsCache.lastUpdate

\* C19: two getRecommendations calls with the same inputs, no ranker and no
\* failed query return the same list in the same order, whether the data
\* came from the cache or from a refill.
C19_SameInputsSameList ==
    \A r1, r2 \in DOMAIN tasks :
        (/\ tasks[r1].kind = "recommend" /\ tasks[r2].kind = "recommend"
         /\ tasks[r1].productId = tasks[r2].productId
         /\ tasks[r1].limit = tasks[r2].limit
         /\ tasks[r1].outcome = "returned" /\ tasks[r2].outcome = "returned"
         /\ ~tasks[r1].failed /\ ~tasks[r2].failed
         /\ ~tasks[r1].useOllama /\ ~tasks[r2].useOllama)
            => tasks[r1].result = tasks[r2].result

\* C19 witness: the first call refilled the cache, the second with the same
\* seed was served from it, and both returned a non-empty list.
C19_Witness ==
    /\ tasks # <<>>
    /\ tasks[1].kind = "recommend" /\ tasks[2].kind = "recommend"
    /\ tasks[1].productId \in Catalog
    /\ tasks[2].productId = tasks[1].productId
    /\ tasks[1].outcome = "returned" /\ tasks[2].outcome = "returned"
    /\ ~tasks[1].fromCache /\ tasks[2].fromCache
    /\ ~tasks[1].failed /\ ~tasks[2].failed
    /\ ~tasks[1].useOllama /\ ~tasks[2].useOllama
    /\ tasks[1].result # <<>>
    /\ Len(productsCache.data) >= 2

\* the rank function returned a list of ids and the request built its result
\* from it
RankingAccepted ==
    Called("rank") /\ recommendedIds.ok /\ recommendedIds.ids # <<>>

\* C20: every product of a result obtained through a successful ranking is
\* a member of the candidate pool of the request; a number of the answer
\* that is no candidate id yields no entry.
C20_RankedWithinPool ==
    (outcome = "returned" /\ RankingAccepted)
        => Range(result) \subseteq Range(productsToRank)

\* C20 witness: a ranking was accepted although the answer also named a
\* number that is no candidate id.
C20_Witness ==
    /\ outcome = "returned"
    /\ RankingAccepted
    /\ strayIds

(* --------------------- result size and empty catalog ------------------ *)
\* the products a request may be answered with: the catalog without the
\* seed product and without the items of the seed order
Eligible ==
    (Catalog \ {req.productId})
        \ (IF req.orderId = StoredOrderId THEN Range(orderItems) ELSE {})

\* C21: whenever the catalog holds at least limit eligible products, a
\* returned result has exactly limit entries; a shorter result means the
\* catalog cannot supply limit eligible products.
C21_ExactlyLimitWhenSupplied ==
    (outcome = "returned" /\ Cardinality(Eligible) >= req.limit)
        => Len(result) = req.limit

\* C21 witness: a request with a seed product and more than one entry asked
\* for is answered in full from a catalog that holds just enough eligible
\* products.
C21_Witness ==
    /\ outcome = "returned"
    /\ req.productId \in Catalog
    /\ req.limit >= 2
    /\ Cardinality(Eligible) = req.limit
    /\ Len(result) = req.limit

\* C22: with an empty catalog and the storage answering, getRecommendations
\* (with a productId, with an orderId, or with neither) and
\* getPopularProducts complete with an empty list and are not rejected.
C22_EmptyCatalogEmptyList ==
    (Catalog = {} /\ pc = "done" /\ ~AnyQueryFailed)
        => (outcome = "returned" /\ result = <<>>)

\* C22 witness: getPopularProducts, called directly, has answered over an
\* empty catalog.
C22_Witness ==
    /\ Catalog = {}
    /\ pc = "done"
    /\ ~AnyQueryFailed
    /\ Called("db:popular")
    /\ ~Called("db:fallback")
    /\ outcome = "returned"

(* ----------------------------- ProductList ---------------------------- *)
\* bounds of the ProductList runs
MaxFilterChanges == 2
MaxInFlight == 2
ListTickMs == 150000
ListMaxNow == 610000

\* now - lastFetchTime.current < 300000
ListTTL == 300000

\* setTimeout(() => fetchProducts(), 800)
FetchDebounceMs == 800

\* the values the controls are set to: two of the categories and the
\* checkbox; the order is left at its default
FilterValues ==
    [category |-> {"", "Electronics"},
     sustainableOnly |-> BOOLEAN,
     sort |-> {"price-asc"}]

\* useState({category: "", sustainableOnly: false, sort: "price-asc"})
DefaultFilters ==
    [category |-> "", sustainableOnly |-> FALSE, sort |-> "price-asc"]

\* getCacheKey: `${category}_${sustainableOnly}_${sort}`; no offered value
\* holds an underscore, so the three parts determine the string
getCacheKey(filters) ==
    <<filters.category, filters.sustainableOnly, filters.sort>>

\* the list a finished fetch stores and shows: filtered and sorted for the
\* filters of the call, from the API or from the mock data set
FetchedList(filters, mock) ==
    [shown |-> TRUE, filters |-> getCacheKey(filters), mock |-> mock,
     fromCache |-> FALSE, age |-> 0]

\* getMockProducts() as the outer catch shows it: neither filtered nor sorted
AllMockProducts ==
    [shown |-> TRUE, filters |-> <<"*">>, mock |-> TRUE,
     fromCache |-> FALSE, age |-> 0]

\* productsCache.current[cacheKey] on display; age is the time since the
\* response that filled the entry arrived
CachedList(pl, filters) ==
    LET entry == pl.cache[getCacheKey(filters)]
    IN  [shown |-> TRUE, filters |-> getCacheKey(filters), mock |-> entry.mock,
         fromCache |-> TRUE, age |-> now - entry.at]

\* faulty variant: a cached list is kept for good
CacheHitAlways(pl, filters) == getCacheKey(filters) \in DOMAIN pl.cache

\* if (cacheEntry && now - lastFetchTime.current < 300000)
CacheHit(pl, filters) ==
    /\ getCacheKey(filters) \in DOMAIN pl.cache
    /\ now - pl.lastFetchTime < ListTTL

\* fetchProducts up to its await: the cached list is shown, or a request is
\* sent with the filters and the clock reading of this call
fetchProducts(pl, filters, hadProducts) ==
    IF CacheHit(pl, filters)
    THEN [pl EXCEPT !.products = CachedList(pl, filters),
                    !.loading = FALSE,
                    !.usingMockData = FALSE]
    ELSE [pl EXCEPT !.loading = IF getCacheKey(filters) \in DOMAIN pl.cache
                                THEN pl.loading ELSE TRUE,
                    !.inFlight = @ \cup {[filters |-> filters, now |-> now,
                                          hadProducts |-> hadProducts]}]

\* the debouncing effect: the pending timeout is cleared and a new one set
ArmFetchTimeout(pl, filters) ==
    [armed |-> TRUE, due |-> now + FetchDebounceMs, filters |-> filters,
     hadProducts |-> pl.products.shown]

productListFrame == <<recommenderVars, lruCache, routing, debounced, shop>>

\* the component mounts: the debouncing effect sets its timeout, then the
\* initial-load effect calls fetchProducts
ProductListMount ==
    /\ ~productList.mounted
    /\ productList' =
          fetchProducts([productList EXCEPT
                            !.mounted = TRUE,
                            !.filters = DefaultFilters,
                            !.fetchTimeout = ArmFetchTimeout(productList,
                                                             DefaultFilters)],
                        DefaultFilters, FALSE)
    /\ UNCHANGED <<now, productListFrame>>

\* handleFilterChange: one control changes its value; the re-render runs
\* the debouncing effect again
handleFilterChange ==
    /\ productList.mounted
    /\ productList.changes < MaxFilterChanges
    /\ \E name \in DOMAIN FilterValues :
         \E value \in FilterValues[name] \ {productList.filters[name]} :
            LET filters == [productList.filters EXCEPT ![name] = value]
            IN  productList' =
                   [productList EXCEPT
                       !.filters = filters,
                       !.changes = @ + 1,
                       !.fetchTimeout = ArmFetchTimeout(productList, filters)]
    /\ UNCHANGED <<now, productListFrame>>

\* the timeout set by the debouncing effect fires and calls fetchProducts
FetchTimeoutFires ==
    /\ productList.fetchTimeout.armed
    /\ now >= productList.fetchTimeout.due
    /\ LET t == productList.fetchTimeout
       IN  /\ ~CacheHit(productList, t.filters)
              => Cardinality(productList.inFlight) < MaxInFlight
           /\ productList' =
                 fetchProducts([productList EXCEPT
                                   !.fetchTimeout = NoFetchTimeout],
                               t.filters, t.hadProducts)
    /\ UNCHANGED <<now, productListFrame>>

\* the rest of fetchProducts once axiosInstance.get has settled: with a list
\* ("ok"), with an error ("failed": the mock data, filtered, take its place)
\* or with a body whose data cannot be spread ("malformed": the outer catch)
FetchSettles ==
    /\ \E r \in productList.inFlight : \E answer \in {"ok", "failed", "malformed"} :
         LET pl == [productList EXCEPT !.inFlight = @ \ {r}]
             key == getCacheKey(r.filters)
             list == FetchedList(r.filters, answer = "failed")
         IN  productList' =
                IF answer = "malformed"
                THEN [pl EXCEPT
                        !.error = TRUE,
                        !.loading = FALSE,
                        !.products = IF r.hadProducts THEN @
                                     ELSE AllMockProducts,
                        !.usingMockData = ~r.hadProducts]
                ELSE [pl EXCEPT
                        !.usingMockData = (answer = "failed"),
                        !.cache = [k \in DOMAIN pl.cache \cup {key} |->
                                      IF k = key
                                      THEN [mock |-> list.mock, at |-> now]
                                      ELSE pl.cache[k]],
                        !.lastFetchTime = r.now,
                        !.products = list,
                        !.loading = FALSE,
                        !.error = FALSE]
    /\ UNCHANGED <<now, productListFrame>>

\* time passes: up to the instant the pending timeout is due, or by a tick
\* when none is pending
ProductListTick ==
    /\ productList.mounted
    /\ LET t == productList.fetchTimeout
       IN  /\ ~(t.armed /\ now >= t.due)
           /\ now' = IF t.armed THEN t.due ELSE now + ListTickMs
    /\ now' <= ListMaxNow
    /\ UNCHANGED <<productList, productListFrame>>

ProductListInit ==
    /\ RecommenderAtRest
    /\ ComponentsAtRest
    /\ now = ListTTL

ProductListNext ==
    \/ ProductListMount
    \/ handleFilterChange
    \/ FetchTimeoutFires
    \/ FetchSettles
    \/ ProductListTick

ProductListSpec == ProductListInit /\ [][ProductListNext]_vars

\* C23: a list shown from the cache was fetched less than 5 minutes before
\* it is shown; a list older than that is never served from the cache.
C23_CachedListFresh ==
    (productList.products.shown /\ productList.products.fromCache)
        => productList.products.age < ListTTL

\* C28: whenever the products on display come from the mock data set, the
\* usingMockData flag is true.
C28_MockDataFlagged ==
    (productList.products.shown /\ productList.products.mock)
        => productList.usingMockData

(* ------------------------------ LRUCache ------------------------------ *)
\* bounds of the LRUCache runs
MaxSize == 3
MaxOps == 5
LruTickMs == 150000
LruMaxNow == 450000

\* constructor(maxSize = 100, ttl = 300000)
DefaultTTL == 300000

LruKeys == {"a", "b", "c", "d"}

\* customTTL of set: 0 = not given
CustomTTLs == {0, LruTickMs}

\* position of key in the Map, 0 when absent
MapIndex(cache, key) ==
    IF \E i \in 1..Len(cache) : cache[i].key = key
    THEN CHOOSE i \in 1..Len(cache) : cache[i].key = key
    ELSE 0

\* Map.prototype.has
MapHas(cache, key) == MapIndex(cache, key) # 0

\* Map.prototype.delete: the other entries keep their order
MapDelete(cache, key) == SelectSeq(cache, LAMBDA e : e.key # key)

\* Map.prototype.set: a key already present keeps its position and gets
\* the new item, a new key goes to the end
MapSet(cache, key, item) ==
    IF MapHas(cache, key)
    THEN [cache EXCEPT ![MapIndex(cache, key)] = [key |-> key, expiry |-> item]]
    ELSE Append(cache, [key |-> key, expiry |-> item])

\* faulty variant: room is made only once maxSize is exceeded
OverMaxSize(cache, maxSize) == Len(cache) > maxSize

\* if (this.cache.size >= this.maxSize)
AtMaxSize(cache, maxSize) == Len(cache) >= maxSize

\* the keys in the order of their last access, the key accessed now last
Accessed(recency, key) ==
    Append(SelectSeq(recency, LAMBDA k : k # key), key)

\* the entries of recency whose keys are still stored
StillStored(recency, cache) ==
    SelectSeq(recency, LAMBDA k : MapHas(cache, k))

lruFrame == <<recommenderVars, productList, routing, debounced, shop>>

\* new LRUCache(maxSize)
LruConstruct ==
    /\ lruCache.maxSize = 0
    /\ \E maxSize \in 1..MaxSize :
         lruCache' = [NoLruCache EXCEPT !.maxSize = maxSize, !.ttl = DefaultTTL]
    /\ UNCHANGED <<now, lruFrame>>

\* get(key)
LruGet ==
    /\ lruCache.maxSize > 0 /\ lruCache.ops < MaxOps
    /\ \E key \in LruKeys :
         LET c == lruCache.cache
             i == MapIndex(c, key)
         IN  lruCache' =
               IF i = 0
               THEN [lruCache EXCEPT !.metrics.misses = @ + 1, !.ops = @ + 1]
               ELSE IF now > c[i].expiry
               THEN [lruCache EXCEPT
                       !.cache = MapDelete(c, key),
                       !.recency = StillStored(@, MapDelete(c, key)),
                       !.metrics.expirations = @ + 1,
                       !.ops = @ + 1]
               ELSE [lruCache EXCEPT
                       !.cache = MapSet(MapDelete(c, key), key, c[i].expiry),
                       !.recency = Accessed(@, key),
                       !.metrics.hits = @ + 1,
                       !.ops = @ + 1]
    /\ UNCHANGED <<now, lruFrame>>

\* set(key, value, customTTL)
LruSet ==
    /\ lruCache.maxSize > 0 /\ lruCache.ops < MaxOps
    /\ \E key \in LruKeys : \E customTTL \in CustomTTLs :
         LET c == lruCache.cache
             full == AtMaxSize(c, lruCache.maxSize)
             oldestKey == c[1].key
             kept == IF full THEN MapDelete(c, oldestKey) ELSE c
             ttl == IF customTTL # 0 THEN customTTL ELSE lruCache.ttl
             after == MapSet(kept, key, now + ttl)
         IN  lruCache' =
               [lruCache EXCEPT
                  !.cache = after,
                  !.metrics.evictions = IF full THEN @ + 1 ELSE @,
                  !.evicted = IF full
                              THEN [happened |-> TRUE, key |-> oldestKey,
                                    recency |-> lruCache.recency]
                              ELSE @,
                  !.recency = Accessed(StillStored(@, kept), key),
                  !.ops = @ + 1]
    /\ UNCHANGED <<now, lruFrame>>

\* delete(key)
LruDelete ==
    /\ lruCache.maxSize > 0 /\ lruCache.ops < MaxOps
    /\ \E key \in LruKeys :
         lruCache' = [lruCache EXCEPT
                        !.cache = MapDelete(@, key),
                        !.recency = SelectSeq(@, LAMBDA k : k # key),
                        !.ops = @ + 1]
    /\ UNCHANGED <<now, lruFrame>>

\* clear()
LruClear ==
    /\ lruCache.maxSize > 0 /\ lruCache.ops < MaxOps
    /\ lruCache' = [lruCache EXCEPT !.cache = <<>>, !.recency = <<>>,
                                    !.ops = @ + 1]
    /\ UNCHANGED <<now, lruFrame>>

\* garbageCollect(), called by the interval or by hand
LruGarbageCollect ==
    /\ lruCache.maxSize > 0 /\ lruCache.ops < MaxOps
    /\ LET live == SelectSeq(lruCache.cache, LAMBDA e : ~(now > e.expiry))
       IN  lruCache' = [lruCache EXCEPT
                          !.cache = live,
                          !.recency = StillStored(@, live),
                          !.metrics.expirations =
                              @ + (Len(lruCache.cache) - Len(live)),
                          !.ops = @ + 1]
    /\ UNCHANGED <<now, lruFrame>>

LruTick ==
    /\ lruCache.maxSize > 0
    /\ now + LruTickMs <= LruMaxNow
    /\ now' = now + LruTickMs
    /\ UNCHANGED <<lruCache, lruFrame>>

LruInit ==
    /\ RecommenderAtRest
    /\ ComponentsAtRest
    /\ now = 0

LruNext ==
    \/ LruConstruct
    \/ LruGet
    \/ LruSet
    \/ LruDelete
    \/ LruClear
    \/ LruGarbageCollect
    \/ LruTick

LruSpec == LruInit /\ [][LruNext]_vars

\* C24: whenever set evicts, the evicted key is the stored key whose last
\* access (a successful get, or a set that inserted or overwrote it) is the
\* oldest.
C24_EvictsLeastRecentlyUsed ==
    lruCache.evicted.happened
        => lruCache.evicted.key = Head(lruCache.evicted.recency)

\* C25: the number of stored entries never exceeds maxSize.
C25_SizeAtMostMaxSize ==
    lruCache.maxSize >= 1 => Len(lruCache.cache) <= lruCache.maxSize

\* C25 witness: a full cache has evicted an entry to take a new key.
C25_Witness ==
    /\ lruCache.maxSize >= 2
    /\ Len(lruCache.cache) = lruCache.maxSize
    /\ lruCache.evicted.happened
    /\ ~MapHas(lruCache.cache, lruCache.evicted.key)

(* ------------------------------- routers ------------------------------ *)
\* bound of the router runs: segments of a request path below the mount
MaxSegments == 2

\* the path segments requests are built from; "42" stands for an id
Segments == {"stats", "filter", "status", "sustainability", "seed", "admin",
             "count", "42"}

Methods == {"GET", "POST", "PATCH"}

\* what a handler does with a request: it answers, or its source is not at
\* hand and it may as well pass the request on with next()
Answers == {TRUE}
AnswersOrPasses == BOOLEAN

\* the layers of the order router, in the order of their registration
OrderRoutes ==
    << [method |-> "POST", path |-> <<>>, protect |-> TRUE,
        handler |-> "createOrder", answers |-> Answers],
       [method |-> "GET", path |-> <<>>, protect |-> TRUE,
        handler |-> "getMyOrders", answers |-> Answers],
       [method |-> "GET", path |-> <<":id">>, protect |-> TRUE,
        handler |-> "getOrderById", answers |-> Answers],
       [method |-> "PATCH", path |-> <<":id", "status">>, protect |-> TRUE,
        handler |-> "updateOrderStatus", answers |-> Answers],
       [method |-> "GET", path |-> <<"stats">>, protect |-> TRUE,
        handler |-> "getMyOrderStats", answers |-> Answers],
       [method |-> "GET", path |-> <<":id", "sustainability">>, protect |-> TRUE,
        handler |-> "getOrderSustainabilityMetrics", answers |-> Answers] >>

\* the layers of the product router, in the order of their registration
ProductRoutes ==
    << [method |-> "GET", path |-> <<"admin", "count">>, protect |-> FALSE,
        handler |-> "adminCount", answers |-> Answers],
       [method |-> "GET", path |-> <<>>, protect |-> FALSE,
        handler |-> "getProducts", answers |-> AnswersOrPasses],
       [method |-> "GET", path |-> <<":id">>, protect |-> FALSE,
        handler |-> "getProductById", answers |-> AnswersOrPasses],
       [method |-> "POST", path |-> <<"seed">>, protect |-> FALSE,
        handler |-> "seedProducts", answers |-> AnswersOrPasses],
       [method |-> "POST", path |-> <<>>, protect |-> FALSE,
        handler |-> "addProduct", answers |-> Answers],
       [method |-> "GET", path |-> <<"filter">>, protect |-> FALSE,
        handler |-> "filter", answers |-> Answers] >>

RoutesOf(router) == IF router = "orders" THEN OrderRoutes ELSE ProductRoutes

\* a path pattern matches a path of as many segments whose literal
\* segments are equal; ":id" matches any one segment
PathMatches(pattern, path) ==
    /\ Len(pattern) = Len(path)
    /\ \A i \in 1..Len(pattern) : pattern[i] = ":id" \/ pattern[i] = path[i]

\* the first layer at or after from that matches the request, 0 if none:
\* the router walks its stack in the order of registration
NextLayer(routes, method, path, from) ==
    LET matching == {i \in from..Len(routes) :
                        routes[i].method = method
                        /\ PathMatches(routes[i].path, path)}
    IN  IF matching = {} THEN 0
        ELSE CHOOSE i \in matching : \A j \in matching : i <= j

routingFrame == <<recommenderVars, productList, lruCache, debounced, shop>>

\* a request reaches one of the routers
RouteRequest ==
    /\ routing.stage = "idle"
    /\ \E router \in {"orders", "products"} : \E method \in Methods :
       \E path \in SeqsUpTo(Segments, MaxSegments) : \E authorized \in BOOLEAN :
          routing' = [NoRequest EXCEPT !.stage = "match", !.router = router,
                                       !.method = method, !.path = path,
                                       !.authorized = authorized, !.layer = 1]
    /\ UNCHANGED <<now, routingFrame>>

\* the router looks for the next matching layer; with none left the
\* request leaves the router unanswered (404)
RouteMatch ==
    /\ routing.stage = "match"
    /\ LET routes == RoutesOf(routing.router)
           i == NextLayer(routes, routing.method, routing.path, routing.layer)
       IN  routing' =
             IF i = 0
             THEN [routing EXCEPT !.stage = "answered", !.status = 404]
             ELSE [routing EXCEPT !.stage = IF routes[i].protect
                                            THEN "protect" ELSE "handler",
                                  !.layer = i]
    /\ UNCHANGED <<now, routingFrame>>

\* protect: next() for an authorized request, 401 otherwise
RouteProtect ==
    /\ routing.stage = "protect"
    /\ routing' = IF routing.authorized
                  THEN [routing EXCEPT !.stage = "handler"]
                  ELSE [routing EXCEPT !.stage = "answered", !.status = 401,
                                       !.handler = "protect"]
    /\ UNCHANGED <<now, routingFrame>>

\* the handler of the layer runs: it sends the response, or passes
RouteHandle ==
    /\ routing.stage = "handler"
    /\ LET route == RoutesOf(routing.router)[routing.layer]
       IN  \E answers \in route.answers :
              routing' = IF answers
                         THEN [routing EXCEPT !.stage = "answered",
                                              !.status = 200,
                                              !.handler = route.handler]
                         ELSE [routing EXCEPT !.stage = "match",
                                              !.layer = @ + 1]
    /\ UNCHANGED <<now, routingFrame>>

RoutingInit ==
    /\ RecommenderAtRest
    /\ ComponentsAtRest
    /\ now = 0

RoutingNext ==
    \/ RouteRequest
    \/ RouteMatch
    \/ RouteProtect
    \/ RouteHandle

RoutingSpec == RoutingInit /\ [][RoutingNext]_vars

\* C26: an authorized GET for /api/orders/stats is answered by
\* getMyOrderStats and a GET for /api/products/filter by the filter
\* handler, not by the handler of "/:id" of the same router.
C26_LiteralRoutesReachable ==
    (routing.stage = "answered" /\ routing.method = "GET"
     /\ routing.authorized)
        => /\ (routing.router = "orders" /\ routing.path = <<"stats">>)
                 => routing.handler = "getMyOrderStats"
           /\ (routing.router = "products" /\ routing.path = <<"filter">>)
                 => routing.handler = "filter"

(* ------------------------------ debounce ------------------------------ *)
\* bounds of the debounce runs
MaxCalls == 3
DebounceTickMs == 100
DebounceMaxNow == 1200

\* debounce(fn, delay = 300)
DefaultDelay == 300

\* the delays the wrapper is made with
Delays == {2 * DebounceTickMs, DefaultDelay}

\* the argument lists the wrapper is called with
ArgLists == {"x", "y"}

\* faulty variant: the pending timeout is left in place
clearTimeoutLeaves(pending, id) == pending

\* clearTimeout(timer): an id that is not pending is ignored
clearTimeout(pending, id) == {t \in pending : t.id # id}

\* a timeout whose delay has passed waits for the event loop
TimeoutDue == \E t \in debounced.pending : now >= t.due

debouncedFrame == <<recommenderVars, productList, lruCache, routing, shop>>

\* const wrapper = debounce(fn, delay)
Debounce ==
    /\ debounced.delay = 0
    /\ \E delay \in Delays :
         debounced' = [NoDebounced EXCEPT !.delay = delay]
    /\ UNCHANGED <<now, debouncedFrame>>

\* wrapper(...args): if (timer) clearTimeout(timer); timer = setTimeout(...).
\* A timeout that is due runs before a call that arrives later.
DebouncedCall ==
    /\ debounced.delay > 0
    /\ Len(debounced.calls) < MaxCalls
    /\ now + debounced.delay <= DebounceMaxNow
    /\ ~TimeoutDue
    /\ \E args \in ArgLists :
         debounced' =
            [debounced EXCEPT
               !.pending = (IF debounced.timer # 0
                            THEN clearTimeout(@, debounced.timer) ELSE @)
                           \cup {[id |-> debounced.nextId,
                                  due |-> now + debounced.delay,
                                  args |-> args]},
               !.timer = debounced.nextId,
               !.nextId = @ + 1,
               !.calls = Append(@, [args |-> args, at |-> now])]
    /\ UNCHANGED <<now, debouncedFrame>>

\* the callback of setTimeout: fn.apply(context, args); timer = null.
\* When fn throws, the assignment is not reached.
DebounceTimeoutFires ==
    /\ \E t \in debounced.pending : \E fnThrows \in BOOLEAN :
         /\ now >= t.due
         /\ debounced' =
               [debounced EXCEPT
                  !.pending = @ \ {t},
                  !.runs = Append(@, [args |-> t.args, at |-> now,
                                      calls |-> Len(debounced.calls)]),
                  !.timer = IF fnThrows THEN @ ELSE 0]
    /\ UNCHANGED <<now, debouncedFrame>>

\* time passes while no timeout is due
DebounceTick ==
    /\ debounced.delay > 0
    /\ ~TimeoutDue
    /\ now + DebounceTickMs <= DebounceMaxNow
    /\ now' = now + DebounceTickMs
    /\ UNCHANGED <<debounced, debouncedFrame>>

DebounceInit ==
    /\ RecommenderAtRest
    /\ ComponentsAtRest
    /\ now = 0

DebounceNext ==
    \/ Debounce
    \/ DebouncedCall
    \/ DebounceTimeoutFires
    \/ DebounceTick

\* the event loop runs a timeout that is due, and time passes
DebounceSpec ==
    /\ DebounceInit
    /\ [][DebounceNext]_vars
    /\ WF_vars(DebounceTimeoutFires)
    /\ WF_vars(DebounceTick)

\* call i is the last of its burst: the next call, if any, comes delay or
\* more after it
EndsBurst(i) ==
    i = Len(debounced.calls)
    \/ debounced.calls[i + 1].at - debounced.calls[i].at >= debounced.delay

\* every run of fn so far came delay or more after the latest call, with
\* the arguments of that call, and once for that call only
RunsAfterBurst ==
    /\ \A j \in 1..Len(debounced.runs) :
         LET run == debounced.runs[j]
         IN  /\ run.calls >= 1
             /\ run.args = debounced.calls[run.calls].args
             /\ run.at - debounced.calls[run.calls].at >= debounced.delay
             /\ EndsBurst(run.calls)
             /\ \A k \in 1..Len(debounced.runs) :
                   debounced.runs[k].calls = run.calls => k = j
    /\ \A i \in 1..(Len(debounced.calls) - 1) :
          EndsBurst(i) => \E j \in 1..Len(debounced.runs) :
                              debounced.runs[j].calls = i

\* the wrapper was called and fn has not run since
BurstOpen ==
    /\ Len(debounced.calls) > 0
    /\ \A j \in 1..Len(debounced.runs) :
          debounced.runs[j].calls # Len(debounced.calls)

\* fn has run for the latest call of the wrapper
BurstServed ==
    \E j \in 1..Len(debounced.runs) :
       debounced.runs[j].calls = Len(debounced.calls)

ShopProducts == 2
MaxAdds == 2
MaxUpdates == 2
ShopTickMs == 1000
ShopMaxNow == 3000

\* const validStatuses
validStatuses == {"pending", "processing", "shipped", "delivered", "cancelled"}

\* the orderStatus values of request bodies: the valid ones, none, and one
\* that is not valid
StatusInputs == validStatuses \cup {"", "refunded"}

\* the carts a createOrder request may meet: distinct products, by id
Carts ==
    {c \in SeqsUpTo(1..ShopProducts, ShopProducts) :
        \A i \in 1..(Len(c) - 1) : c[i] < c[i + 1]}

\* const updateData = { orderStatus } and the two fields added for
\* "delivered"; <<>> marks a field the $set leaves out
UpdateData(orderStatus) ==
    [orderStatus |-> orderStatus,
     isDelivered |-> IF orderStatus = "delivered" THEN <<TRUE>> ELSE <<>>,
     deliveredAt |-> IF orderStatus = "delivered" THEN <<now>> ELSE <<>>]

\* { $set: updateData } applied to the order document
SetFields(order, updateData) ==
    [order EXCEPT
       !.orderStatus = updateData.orderStatus,
       !.isDelivered = IF updateData.isDelivered = <<>> THEN @
                       ELSE updateData.isDelivered[1],
       !.deliveredAt = IF updateData.deliveredAt = <<>> THEN @
                       ELSE updateData.deliveredAt[1]]

shopFrame == <<recommenderVars, productList, lruCache, routing, debounced>>

\* createOrder up to its first await: the validation result is checked and
\* Cart.findOne is sent
CreateOrderStart ==
    /\ shop.pc = "idle" /\ ~shop.order.exists
    /\ \E valid \in BOOLEAN :
         shop' = IF valid THEN [shop EXCEPT !.pc = "findCart"]
                 ELSE [shop EXCEPT !.pc = "done", !.status = 400]
    /\ UNCHANGED <<now, shopFrame>>

\* Cart.findOne answers: the order is built from the cart as read and
\* order.save() is sent
CreateOrderCartRead ==
    /\ shop.pc = "findCart"
    /\ \E up \in BOOLEAN :
         shop' = IF ~up THEN [shop EXCEPT !.pc = "done", !.status = 500]
                 ELSE IF shop.cart = <<>>
                 THEN [shop EXCEPT !.pc = "done", !.status = 400]
                 ELSE [shop EXCEPT !.pc = "save", !.items = shop.cart,
                                   !.addedSinceRead = {}]
    /\ UNCHANGED <<now, shopFrame>>

\* order.save() answers: the cart clear and the purchase count increments
\* are sent without being awaited, then the response is written
CreateOrderSaved ==
    /\ shop.pc = "save"
    /\ \E up \in BOOLEAN :
         shop' = IF ~up THEN [shop EXCEPT !.pc = "done", !.status = 500]
                 ELSE [shop EXCEPT
                         !.order = [exists |-> TRUE, orderItems |-> shop.items,
                                    orderStatus |-> "pending",
                                    isDelivered |-> FALSE, deliveredAt |-> 0],
                         !.clearPending = TRUE,
                         !.increments = Range(shop.items),
                         !.pc = "done",
                         !.status = 201]
    /\ UNCHANGED <<now, shopFrame>>

\* Cart.findOneAndUpdate({user}, {$set: {items: []}}) reaches the database
CartClearRuns ==
    /\ shop.clearPending
    /\ \E up \in BOOLEAN :
         shop' = IF up
                 THEN [shop EXCEPT !.cart = <<>>, !.clearPending = FALSE,
                                   !.cleared = TRUE]
                 ELSE [shop EXCEPT !.clearPending = FALSE]
    /\ UNCHANGED <<now, shopFrame>>

\* one Product.findByIdAndUpdate({$inc: {purchaseCount}}) reaches the
\* database
PurchaseCountRuns ==
    /\ \E p \in shop.increments : \E up \in BOOLEAN :
         shop' = [shop EXCEPT !.increments = @ \ {p},
                              !.purchased = IF up THEN @ \cup {p} ELSE @]
    /\ UNCHANGED <<now, shopFrame>>

\* the same user adds a product to the cart from another request: one
\* update of the cart document
AddToCart ==
    /\ shop.adds < MaxAdds
    /\ \E p \in (1..ShopProducts) \ Range(shop.cart) :
         shop' = [shop EXCEPT
                    !.cart = Append(@, p),
                    !.adds = @ + 1,
                    !.addedSinceRead = IF shop.pc = "save" \/ shop.clearPending
                                       THEN @ \cup {p} ELSE @]
    /\ UNCHANGED <<now, shopFrame>>

\* updateOrderStatus, for the id of the order or an id that is not stored
updateOrderStatus ==
    /\ shop.updates < MaxUpdates
    /\ \E orderStatus \in StatusInputs : \E found \in {shop.order.exists, FALSE} :
       \E up \in BOOLEAN :
         shop' =
           IF orderStatus = "" \/ orderStatus \notin validStatuses
           THEN [shop EXCEPT !.updates = @ + 1, !.updateStatus = 400]
           ELSE IF ~up
           THEN [shop EXCEPT !.updates = @ + 1, !.updateStatus = 500]
           ELSE IF ~found
           THEN [shop EXCEPT !.updates = @ + 1, !.updateStatus = 404]
           ELSE [shop EXCEPT !.updates = @ + 1, !.updateStatus = 200,
                             !.order = SetFields(@, UpdateData(orderStatus))]
    /\ UNCHANGED <<now, shopFrame>>

ShopTick ==
    /\ shop.pc # "idle"
    /\ now + ShopTickMs <= ShopMaxNow
    /\ now' = now + ShopTickMs
    /\ UNCHANGED <<shop, shopFrame>>

ShopInit ==
    /\ RecommenderAtRest
    /\ productList = ProductListUnmounted
    /\ lruCache = NoLruCache
    /\ routing = NoRequest
    /\ debounced = NoDebounced
    /\ \E cart \in Carts : shop = [ShopAtRest EXCEPT !.cart = cart]
    /\ now = ShopTickMs

ShopNext ==
    \/ CreateOrderStart
    \/ CreateOrderCartRead
    \/ CreateOrderSaved
    \/ CartClearRuns
    \/ PurchaseCountRuns
    \/ AddToCart
    \/ updateOrderStatus
    \/ ShopTick

ShopSpec == ShopInit /\ [][ShopNext]_vars

\* C29: isDelivered is true exactly when orderStatus is "delivered", and
\* deliveredAt is set only in that case.
C29_DeliveredIffStatus ==
    shop.order.exists
        => /\ shop.order.isDelivered = (shop.order.orderStatus = "delivered")
           /\ shop.order.deliveredAt # 0 => shop.order.orderStatus = "delivered"

\* C30: once the cart clear of createOrder has run, a product added to the
\* cart after the order was built from it is still in the cart.
C30_ClearKeepsLaterItems ==
    shop.cleared => shop.addedSinceRead \subseteq Range(shop.cart)

=============================================================================






